---------------------------- MODULE Spec2Model ----------------------------
(***************************************************************************)
(* Model of WorkflowOrchestrator (src/gradio_multi_process_orchestrator.py)*)
(* and of the Gradio event handlers that drive the one global instance.    *)
(*                                                                         *)
(* Text is modelled as a sequence of tokens, so that concatenation, join   *)
(* and the emptiness test of a string are computed, not assumed.  A Python *)
(* dict is a function whose DOMAIN is the set of keys present.  A call of  *)
(* execute_process is two steps, split at its one blocking point, the      *)
(* call model.generate_content(prompt): the part before it, and the part   *)
(* after it (the response or the exception).                               *)
(***************************************************************************)
EXTENDS Naturals, Sequences, FiniteSets

\* ------------------------------------------------------------------ bounds
MaxProcs == 2        \* Spec, SpecUI: workflows of 1..MaxProcs definitions
MaxTime  == 2        \* Spec, SpecUI: executions started in one behaviour
MaxRunProcs == 4     \* SpecRuns: workflows of 1..MaxRunProcs definitions
MaxRunTime  == 3     \* SpecRuns: executions started in one behaviour
MaxAutoProcs == 3    \* SpecAuto: workflows of 1..MaxAutoProcs definitions
MaxAutoTime  == 3    \* SpecAuto: executions started in one behaviour

\* --------------------------------------------------------------- constants
\* ProcessStatus
PENDING          == "pending"
RUNNING          == "running"
COMPLETED        == "completed"
FAILED           == "failed"
WAITING_APPROVAL == "waiting_approval"
ProcessStatus    == {PENDING, RUNNING, COMPLETED, FAILED, WAITING_APPROVAL}

\* Python's None, where a process id is expected
None == "None"

\* the ids of code_gen_workflow, in declared order
WorkflowIds ==
    << "requirements_analyzer", "architecture_designer", "code_generator",
       "code_reviewer", "test_generator", "documentation_writer" >>

\* ProcessConfig.name of each id
ProcName(id) ==
    CASE id = "requirements_analyzer" -> "Requirements Analyzer"
      [] id = "architecture_designer" -> "Architecture Designer"
      [] id = "code_generator"        -> "Code Generator"
      [] id = "code_reviewer"         -> "Code Reviewer"
      [] id = "test_generator"        -> "Test Generator"
      [] OTHER                        -> "Documentation Writer"

\* a ProcessConfig (the fields the orchestrator reads)
ProcessConfig(id, approval) ==
    [ id |-> id, name |-> ProcName(id), description |-> <<"desc", id>>,
      requires_approval |-> approval ]

\* texts typed by the user, texts the model answers, exceptions it raises
UserTexts  == { <<"u">> }
ModelTexts == { <<"X">>, <<"Y">> }
ModelErrors == { "quota" }

\* the empty dict
EmptyDict == [k \in {} |-> None]

\* d[k] = v of a Python dict
DictSet(d, k, v) == [x \in DOMAIN d \cup {k} |-> IF x = k THEN v ELSE d[x]]

VARIABLES
    process_order,    \* self.process_order: sequence of ids
    processes,        \* self.processes: id -> ProcessConfig
    workflow_id,      \* state.workflow_id
    process_status,   \* state.process_status: id -> ProcessStatus
    process_outputs,  \* state.process_outputs: dict id -> result payload
    history,          \* state.history: sequence of records
    started_at,       \* state.started_at: None or a time
    gemini_clients,   \* self.gemini_clients: ids with a cached client
    created,          \* clients ever constructed: id -> count
    now,              \* the clock datetime.now() reads
    inflight,         \* per event listener: the call blocked in the model call
    last              \* the most recent call or return (observation only)

vars == << process_order, processes, workflow_id, process_status, process_outputs, history,
           started_at, gemini_clients, created, now, inflight, last >>

config == << process_order, processes, workflow_id >>


\* ------------------------------------------------------------ pure helpers
\* sep.join(parts) on texts
RECURSIVE Join(_, _)
Join(parts, sep) ==
    IF parts = <<>> THEN <<>>
    ELSE IF Len(parts) = 1 THEN parts[1]
    ELSE parts[1] \o sep \o Join(Tail(parts), sep)

\* process_order.index(id), 0-based as in Python
RECURSIVE IndexFrom(_, _)
IndexFrom(id, k) ==
    IF process_order[k] = id THEN k - 1 ELSE IndexFrom(id, k + 1)

Index(id) == IndexFrom(id, 1)

\* Prefix taking one id too many
PrefixInclusive(idx) == SubSeq(process_order, 1, idx + 1)

\* process_order[:idx]
Prefix(idx) == SubSeq(process_order, 1, idx)

\* one context entry: f"[{name}]\n{output.get('output', '')}"
ContextEntry(proc_id) ==
    LET output == process_outputs[proc_id]
    IN  <<"[", processes[proc_id].name, "]\n">>
        \o (IF "output" \in DOMAIN output THEN output.output ELSE <<>>)

\* the loop of _build_context over ids, appending to context_parts
RECURSIVE ContextParts(_, _)
ContextParts(ids, context_parts) ==
    IF ids = <<>> THEN context_parts
    ELSE ContextParts(Tail(ids),
            IF Head(ids) \in DOMAIN process_outputs
            THEN Append(context_parts, ContextEntry(Head(ids)))
            ELSE context_parts)

ContextDelimiter == <<"\n\n---\n\n">>

\* WorkflowOrchestrator._build_context
BuildContext(current_process_id) ==
    LET context_parts == ContextParts(Prefix(Index(current_process_id)), <<>>)
    IN  IF context_parts # <<>> THEN Join(context_parts, ContextDelimiter)
        ELSE <<>>

\* the "- key: value" lines of _format_prompt; inputs is a sequence of
\* <<key, value>> pairs (a dict in insertion order)
InputLines(inputs) ==
    [k \in 1..Len(inputs) |-> <<"- ", inputs[k][1], ": ">> \o inputs[k][2]]

\* WorkflowOrchestrator._format_prompt
FormatPrompt(proc, inputs, context) ==
    LET head == IF context # <<>>
                THEN << <<"CONTEXT FROM PREVIOUS PROCESSES:\n">> \o context
                        \o <<"\n">> >>
                ELSE <<>>
        prompt_parts ==
            head \o << <<"CURRENT TASK: ">> \o proc.description \o <<"\n">>,
                       <<"INPUTS:">> >>
                 \o InputLines(inputs)
    IN  Join(prompt_parts, <<"\n">>)

\* FirstPending scanning from the end
RECURSIVE FirstPendingFromEnd(_)
FirstPendingFromEnd(ids) ==
    IF ids = <<>> THEN None
    ELSE IF process_status[ids[Len(ids)]] = PENDING THEN ids[Len(ids)]
    ELSE FirstPendingFromEnd(SubSeq(ids, 1, Len(ids) - 1))

\* the scan of get_next_process over ids
RECURSIVE FirstPending(_)
FirstPending(ids) ==
    IF ids = <<>> THEN None
    ELSE IF process_status[Head(ids)] = PENDING THEN Head(ids)
    ELSE FirstPending(Tail(ids))

\* WorkflowOrchestrator.get_next_process
GetNextProcess == FirstPending(process_order)

\* FirstWaiting scanning from the end
RECURSIVE FirstWaitingFromEnd(_)
FirstWaitingFromEnd(ids) ==
    IF ids = <<>> THEN None
    ELSE IF process_status[ids[Len(ids)]] = WAITING_APPROVAL THEN ids[Len(ids)]
    ELSE FirstWaitingFromEnd(SubSeq(ids, 1, Len(ids) - 1))

\* the scan of approve_process_handler / get_approval_queue over
\* process_status.items(): a dict iterates in insertion order, which is the
\* declared order (__init__ inserts the ids in that order; an update of a
\* value keeps the key's place)
RECURSIVE FirstWaiting(_)
FirstWaiting(ids) ==
    IF ids = <<>> THEN None
    ELSE IF process_status[Head(ids)] = WAITING_APPROVAL THEN Head(ids)
    ELSE FirstWaiting(Tail(ids))

\* SuccessStatus without the approval gate
SuccessStatusNoGate(proc) == COMPLETED

\* the status execute_process sets after a successful response
SuccessStatus(proc) ==
    IF proc.requires_approval THEN WAITING_APPROVAL ELSE COMPLETED

\* the payload execute_process returns on success
SuccessPayload(text, process_id, inputs) ==
    [ output |-> text, process_id |-> process_id, timestamp |-> now,
      inputs |-> inputs ]

\* the payload execute_process returns from its except clause
ErrorPayload(e, process_id) ==
    [ error |-> e, process_id |-> process_id, timestamp |-> now ]

\* the record execute_process appends to history
HistoryRecord(process_id) ==
    [ process |-> process_id, action |-> "executed", timestamp |-> now ]

\* OnException letting the exception escape
OnExceptionReraise(e, process_id) ==
    [ status |-> FAILED, phase |-> "raise", ret |-> None,
      outputs |-> process_outputs ]

\* OnException storing the error payload as the process's output
OnExceptionStores(e, process_id) ==
    [ status |-> FAILED, phase |-> "return", ret |-> ErrorPayload(e, process_id),
      outputs |-> DictSet(process_outputs, process_id,
                          ErrorPayload(e, process_id)) ]

\* OnException putting the process back to pending, to be tried again
OnExceptionRetry(e, process_id) ==
    [ status |-> PENDING, phase |-> "return", ret |-> ErrorPayload(e, process_id),
      outputs |-> process_outputs ]

\* what the except clause of execute_process does with exception e: the
\* status it writes, how the call ends, what it returns, and process_outputs
\* as it leaves it
OnException(e, process_id) ==
    [ status |-> FAILED, phase |-> "return", ret |-> ErrorPayload(e, process_id),
      outputs |-> process_outputs ]

\* ExecuteAccepts enforcing that every earlier process is completed
ExecuteAcceptsInOrder(process_id) ==
    /\ process_id \in DOMAIN processes
    /\ \A k \in 1..Len(process_order) :
          k < Index(process_id) + 1 => process_status[process_order[k]] = COMPLETED

\* NeedsClient without the cache lookup
NeedsClientAlways(process_id) == TRUE

\* init_gemini_client: a client is constructed when none is cached
NeedsClient(process_id) == process_id \notin gemini_clients

\* LogExecuted keeping the latest record only
LogExecutedLatestOnly(h, process_id) == << HistoryRecord(process_id) >>

\* self.state.history.append({...})
LogExecuted(h, process_id) == Append(h, HistoryRecord(process_id))

\* the one precondition of execute_process: self.processes[process_id]
ExecuteAccepts(process_id) == process_id \in DOMAIN processes

\* ApprovalStatus with the two outcomes swapped
ApprovalStatusSwapped(approved) == IF approved THEN FAILED ELSE COMPLETED

\* ApprovalStatus sending a rejected process back to pending
ApprovalStatusReset(approved) == IF approved THEN COMPLETED ELSE PENDING

\* the status approve_process writes
ApprovalStatus(approved) == IF approved THEN COMPLETED ELSE FAILED

\* the string approve_process returns
ApprovalMessage(process_id, approved) ==
    IF approved THEN <<"approved: ", processes[process_id].name>>
    ELSE <<"rejected: ", processes[process_id].name>>

\* ApproveOutcome refusing a process that is not waiting_approval
ApproveOutcomeGuarded(process_id, approved) ==
    IF process_status[process_id] = WAITING_APPROVAL
    THEN [ status |-> ApprovalStatus(approved), phase |-> "return",
           ret |-> ApprovalMessage(process_id, approved),
           outputs |-> process_outputs ]
    ELSE [ status |-> process_status[process_id], phase |-> "raise",
           ret |-> None, outputs |-> process_outputs ]

\* ApproveOutcome discarding the output of a rejected process
ApproveOutcomeDropsRejected(process_id, approved) ==
    [ status |-> ApprovalStatus(approved), phase |-> "return",
      ret |-> ApprovalMessage(process_id, approved),
      outputs |-> IF approved THEN process_outputs
                  ELSE [ id \in DOMAIN process_outputs \ {process_id} |->
                            process_outputs[id] ] ]

\* what approve_process does: the status it writes, how the call ends, what
\* it returns, and process_outputs as it leaves it
ApproveOutcome(process_id, approved) ==
    [ status |-> ApprovalStatus(approved), phase |-> "return",
      ret |-> ApprovalMessage(process_id, approved),
      outputs |-> process_outputs ]

\* the tally of get_workflow_status for one status value
StatusCount(status) ==
    Cardinality({ id \in DOMAIN process_status : process_status[id] = status })

\* WorkflowOrchestrator.get_workflow_status: what the summary shows
GetWorkflowStatus ==
    [ workflow_id |-> workflow_id,
      total       |-> Cardinality(DOMAIN processes),
      counts      |-> [ status \in ProcessStatus |-> StatusCount(status) ] ]

\* AutoAdvanceInput passing on the output of a completed process only
AutoAdvanceInputCompletedOnly(next_proc) ==
    LET prev_idx == Index(next_proc) - 1
    IN  IF Index(next_proc) >= 1
           /\ process_status[process_order[prev_idx + 1]] = COMPLETED
           /\ process_order[prev_idx + 1] \in DOMAIN process_outputs
        THEN << <<"input", process_outputs[process_order[prev_idx + 1]].output>> >>
        ELSE << <<"input", <<>> >> >>

\* the input auto_advance_workflow passes for next_proc
AutoAdvanceInput(next_proc) ==
    LET prev_idx == Index(next_proc) - 1
    IN  IF Index(next_proc) >= 1
        THEN LET prev_proc == process_order[prev_idx + 1]
             IN  IF prev_proc \in DOMAIN process_outputs
                    /\ "output" \in DOMAIN process_outputs[prev_proc]
                 THEN << <<"input", process_outputs[prev_proc].output>> >>
                 ELSE << <<"input", <<>> >> >>
        ELSE << <<"input", <<>> >> >>

\* ---------------------------------------------------------- event listeners
\* "caller" calls the orchestrator's methods directly; the others are the
\* buttons wired in create_workflow_ui
Buttons   == { "start_btn", "execute_btn", "auto_advance_btn",
               "approve_btn", "reject_btn" }
Listeners == { "caller" } \cup Buttons

Idle == [ fn |-> "idle" ]

IsIdle(l) == inflight[l].fn = "idle"

\* one logical thread of control: a call starts when no call is in progress
Serialized(l) == \A k \in Listeners : IsIdle(k)

\* Gradio's dispatch of the listeners as wired (no concurrency_id, no lock):
\* a listener runs one call at a time, and listeners do not wait for each other
PerListener(l) == IsIdle(l)

\* the most recent call or return of an orchestrator method or handler
\* (op, the process id and argument passed, the status that process had when
\* the call started, and what was returned)
Observe(op, phase, process_id, arg, pre, ret) ==
    [ op |-> op, phase |-> phase, process_id |-> process_id, arg |-> arg,
      pre |-> pre, ret |-> ret ]

\* ------------------------------------------------------------------- Init
\* InitialStatus putting the first process in running
InitialStatusFirstRunning(ids) ==
    [ id \in { ids[k] : k \in DOMAIN ids } |->
        IF id = ids[1] THEN RUNNING ELSE PENDING ]

\* {p.id: ProcessStatus.PENDING for p in processes}
InitialStatus(ids) == [ id \in { ids[k] : k \in DOMAIN ids } |-> PENDING ]

\* WorkflowOrchestrator.__init__ on definitions with the given ids (a prefix
\* of the workflow) and requires_approval flags
Construct(ids, approval) ==
    /\ process_order = ids
    /\ processes = [ id \in DOMAIN approval |-> ProcessConfig(id, approval[id]) ]
    /\ workflow_id = <<"wf_", 1>>
    /\ process_status = InitialStatus(ids)
    /\ process_outputs = EmptyDict
    /\ history = <<>>
    /\ started_at = 0
    /\ gemini_clients = {}
    /\ created = [ id \in DOMAIN approval |-> 0 ]
    /\ now = 1
    /\ inflight = [ l \in Listeners |-> Idle ]
    /\ last = Observe("__init__", "return", None, None, None, None)

IdsOf(n) == { WorkflowIds[k] : k \in 1..n }

\* any workflow of 1..MaxProcs definitions, with any flags
Init ==
    \E n \in 1..MaxProcs : \E approval \in [ IdsOf(n) -> BOOLEAN ] :
        Construct(SubSeq(WorkflowIds, 1, n), approval)

\* any workflow of 1..MaxAutoProcs definitions, with any flags
InitAuto ==
    \E n \in 1..MaxAutoProcs : \E approval \in [ IdsOf(n) -> BOOLEAN ] :
        Construct(SubSeq(WorkflowIds, 1, n), approval)

\* requires_approval as code_gen_workflow sets it
WorkflowApproval(id) == id \in { "architecture_designer", "documentation_writer" }

\* the first 1..MaxRunProcs definitions of code_gen_workflow
InitRuns ==
    \E n \in 1..MaxRunProcs :
        Construct(SubSeq(WorkflowIds, 1, n),
                  [ id \in IdsOf(n) |-> WorkflowApproval(id) ])

\* ---------------------------------------------------------------- actions
\* execute_process up to and including the call model.generate_content:
\* lines 81-92.  started is the value the handler leaves in state.started_at.
ExecuteCall(l, fn, process_id, inputs, started) ==
    /\ ExecuteAccepts(process_id)
    /\ process_status' = [process_status EXCEPT ![process_id] = RUNNING]
    /\ gemini_clients' = gemini_clients \cup {process_id}
    /\ created' = IF NeedsClient(process_id)
                  THEN [created EXCEPT ![process_id] = @ + 1]
                  ELSE created
    /\ inflight' = [inflight EXCEPT ![l] =
            [ fn |-> fn, process_id |-> process_id, inputs |-> inputs,
              pre |-> process_status[process_id],
              context |-> BuildContext(process_id),
              prompt |-> FormatPrompt(processes[process_id], inputs,
                                      BuildContext(process_id)) ]]
    /\ started_at' = started
    /\ now' = now + 1
    /\ last' = Observe(fn, "call", process_id, inputs,
                       process_status[process_id], None)
    /\ UNCHANGED << config, process_outputs, history >>

\* the model answers with text: lines 93-114
ModelResponds(l, text) ==
    /\ ~IsIdle(l)
    /\ LET c      == inflight[l]
           id     == c.process_id
           result == SuccessPayload(text, id, c.inputs)
       IN  /\ process_outputs' = DictSet(process_outputs, id, result)
           /\ process_status' =
                [process_status EXCEPT ![id] = SuccessStatus(processes[id])]
           /\ history' = LogExecuted(history, id)
           /\ last' = Observe(c.fn, "return", id, c.inputs, c.pre, result)
    /\ inflight' = [inflight EXCEPT ![l] = Idle]
    /\ UNCHANGED << config, started_at, gemini_clients, created, now >>

\* the model call raises e: lines 116-122
ModelRaises(l, e) ==
    /\ ~IsIdle(l)
    /\ LET c   == inflight[l]
           id  == c.process_id
           out == OnException(e, id)
       IN  /\ process_status' = [process_status EXCEPT ![id] = out.status]
           /\ process_outputs' = out.outputs
           /\ last' = Observe(c.fn, out.phase, id, c.inputs, c.pre, out.ret)
    /\ inflight' = [inflight EXCEPT ![l] = Idle]
    /\ UNCHANGED << config, history, started_at, gemini_clients, created, now >>

\* approve_process: lines 152-159
ApproveProcess(fn, process_id, approved) ==
    /\ process_id \in DOMAIN processes
    /\ LET out == ApproveOutcome(process_id, approved)
       IN  /\ process_status' =
                [process_status EXCEPT ![process_id] = out.status]
           /\ process_outputs' = out.outputs
           /\ last' = Observe(fn, out.phase, process_id, approved,
                              process_status[process_id], out.ret)
    /\ UNCHANGED << config, history, started_at, gemini_clients, created,
                    now, inflight >>

\* a handler or method that returns ret and writes nothing
ReturnOnly(fn, ret) ==
    /\ last' = Observe(fn, "return", None, None, None, ret)
    /\ UNCHANGED << config, process_status, process_outputs, history,
                    started_at, gemini_clients, created, now, inflight >>

\* a direct call of get_next_process: lines 161-166
NextPending == ReturnOnly("get_next_process", GetNextProcess)

\* RefreshStatus putting the failed processes back to pending
RefreshStatusRequeues ==
    /\ process_status' =
            [ id \in DOMAIN process_status |->
                IF process_status[id] = FAILED THEN PENDING
                ELSE process_status[id] ]
    /\ last' = Observe("get_workflow_status", "return", None, None, None,
                       GetWorkflowStatus)
    /\ UNCHANGED << config, process_outputs, history, started_at,
                    gemini_clients, created, now, inflight >>

\* the refresh button: lambda: orchestrator.get_workflow_status()
RefreshStatus == ReturnOnly("get_workflow_status", GetWorkflowStatus)

\* start_workflow: lines 360-375
StartWorkflow(l, requirements) ==
    ExecuteCall(l, "start_workflow", "requirements_analyzer",
                << <<"requirements", requirements>> >>, now)

\* execute_single_process: lines 377-386
ExecuteSingleProcess(l, process_id, user_input) ==
    ExecuteCall(l, "execute_single_process", process_id,
                << <<"input", user_input>> >>, started_at)

\* auto_advance_workflow: lines 388-409
AutoAdvanceWorkflow(l) ==
    LET next_proc == GetNextProcess
    IN  IF next_proc = None
        THEN ReturnOnly("auto_advance_workflow", <<"No pending processes">>)
        ELSE ExecuteCall(l, "auto_advance_workflow", next_proc,
                         AutoAdvanceInput(next_proc), started_at)

\* ApproveProcessHandler writing the status of every waiting process itself
ApproveProcessHandlerAll(approved) ==
    /\ process_status' =
            [ id \in DOMAIN process_status |->
                IF process_status[id] = WAITING_APPROVAL
                THEN ApprovalStatus(approved) ELSE process_status[id] ]
    /\ last' = Observe("approve_process_handler", "return", None, approved,
                       None, <<"all approved or rejected">>)
    /\ UNCHANGED << config, process_outputs, history, started_at,
                    gemini_clients, created, now, inflight >>

\* approve_process_handler: lines 424-430
ApproveProcessHandler(approved) ==
    LET proc_id == FirstWaiting(process_order)
    IN  IF proc_id = None
        THEN ReturnOnly("approve_process_handler", <<"No process to approve">>)
        ELSE ApproveProcess("approve_process_handler", proc_id, approved)

\* the inputs dict a direct caller passes
CallerInputs == { << <<"input", t>> >> : t \in UserTexts }

\* --------------------------------------------------------- specifications
\* the orchestrator's methods, called by one caller: every call runs to
\* completion before the next one starts
Next ==
    \/ \E id \in DOMAIN processes, inputs \in CallerInputs :
          /\ now <= MaxTime
          /\ Serialized("caller")
          /\ ExecuteCall("caller", "execute_process", id, inputs, started_at)
    \/ \E id \in DOMAIN processes, approved \in BOOLEAN :
          Serialized("caller")
          /\ ApproveProcess("approve_process", id, approved)
    \/ Serialized("caller") /\ NextPending
    \/ \E text \in ModelTexts : ModelResponds("caller", text)
    \/ \E e \in ModelErrors : ModelRaises("caller", e)

Spec == Init /\ [][Next]_vars

\* executions only, one at a time, on code_gen_workflow
NextRuns ==
    \/ \E id \in DOMAIN processes, inputs \in CallerInputs :
          /\ now <= MaxRunTime
          /\ Serialized("caller")
          /\ ExecuteCall("caller", "execute_process", id, inputs, started_at)
    \/ \E text \in ModelTexts : ModelResponds("caller", text)
    \/ \E e \in ModelErrors : ModelRaises("caller", e)

SpecRuns == InitRuns /\ [][NextRuns]_vars

\* the buttons of the UI, dispatched per listener
NextUI ==
    \/ \E r \in UserTexts :
          /\ now <= MaxTime
          /\ PerListener("start_btn")
          /\ StartWorkflow("start_btn", r)
    \/ \E id \in DOMAIN processes, u \in UserTexts :
          /\ now <= MaxTime
          /\ PerListener("execute_btn")
          /\ ExecuteSingleProcess("execute_btn", id, u)
    \/ /\ now <= MaxTime
       /\ PerListener("auto_advance_btn")
       /\ AutoAdvanceWorkflow("auto_advance_btn")
    \/ PerListener("approve_btn") /\ ApproveProcessHandler(TRUE)
    \/ PerListener("reject_btn") /\ ApproveProcessHandler(FALSE)
    \/ \E l \in Buttons, text \in ModelTexts : ModelResponds(l, text)
    \/ \E l \in Buttons, e \in ModelErrors : ModelRaises(l, e)

SpecUI == Init /\ [][NextUI]_vars

\* the buttons of the UI, one handler at a time
NextButtons ==
    \/ \E r \in UserTexts :
          /\ now <= MaxTime
          /\ Serialized("start_btn")
          /\ StartWorkflow("start_btn", r)
    \/ \E id \in DOMAIN processes, u \in UserTexts :
          /\ now <= MaxTime
          /\ Serialized("execute_btn")
          /\ ExecuteSingleProcess("execute_btn", id, u)
    \/ /\ GetNextProcess = None \/ now <= MaxTime
       /\ Serialized("auto_advance_btn")
       /\ AutoAdvanceWorkflow("auto_advance_btn")
    \/ Serialized("approve_btn") /\ ApproveProcessHandler(TRUE)
    \/ Serialized("reject_btn") /\ ApproveProcessHandler(FALSE)
    \/ Serialized("caller") /\ RefreshStatus
    \/ \E l \in Buttons, text \in ModelTexts : ModelResponds(l, text)
    \/ \E l \in Buttons, e \in ModelErrors : ModelRaises(l, e)

SpecButtons == Init /\ [][NextButtons]_vars

\* auto-advance and the approval buttons only, one handler at a time
NextAuto ==
    \/ /\ GetNextProcess = None \/ now <= MaxAutoTime
       /\ Serialized("auto_advance_btn")
       /\ AutoAdvanceWorkflow("auto_advance_btn")
    \/ Serialized("approve_btn") /\ ApproveProcessHandler(TRUE)
    \/ Serialized("reject_btn") /\ ApproveProcessHandler(FALSE)
    \/ \E text \in ModelTexts : ModelResponds("auto_advance_btn", text)
    \/ \E e \in ModelErrors : ModelRaises("auto_advance_btn", e)

SpecAuto == InitAuto /\ [][NextAuto]_vars

\* approve_process called from a second thread while the execute button's
\* call is blocked in the model call
NextOverlap ==
    \/ \E id \in DOMAIN processes, u \in UserTexts :
          /\ now <= MaxTime
          /\ PerListener("execute_btn")
          /\ ExecuteSingleProcess("execute_btn", id, u)
    \/ \E id \in DOMAIN processes, approved \in BOOLEAN :
          ApproveProcess("approve_process", id, approved)
    \/ \E text \in ModelTexts : ModelResponds("execute_btn", text)
    \/ \E e \in ModelErrors : ModelRaises("execute_btn", e)

SpecOverlap == Init /\ [][NextOverlap]_vars

\* ------------------------------------------------------------------ claims
ExecuteOps == { "execute_process", "start_workflow", "execute_single_process",
                "auto_advance_workflow" }
ApproveOps == { "approve_process", "approve_process_handler" }

\* the step in which a call of execute_process starts, and the one in which
\* it returns (or raises)
CallStep   == last'.op \in ExecuteOps /\ last'.phase = "call"
ReturnStep == last.op \in ExecuteOps /\ last.phase = "call"
              /\ last'.op \in ExecuteOps /\ last'.phase # "call"

\* the statuses that changed in a step
Changed == { id \in DOMAIN process_status :
                process_status'[id] # process_status[id] }

\* C1 as stated: every status change is pending -> running,
\* running -> waiting_approval | completed | failed (by execute), or
\* waiting_approval -> completed | failed (by approve)
C1_SpecTransitionsOnly ==
    [][\A id \in Changed :
        LET from == process_status[id]
            to   == process_status'[id]
        IN  \/ /\ last'.op \in ExecuteOps
               /\ \/ from = PENDING /\ to = RUNNING
                  \/ from = RUNNING
                     /\ to \in {WAITING_APPROVAL, COMPLETED, FAILED}
            \/ /\ last'.op \in ApproveOps
               /\ from = WAITING_APPROVAL /\ to \in {COMPLETED, FAILED}]_vars

\* C1 amended: every status change is, by execute, any status but running
\* -> running (the call) or running -> waiting_approval | completed | failed
\* (the return), or, by approve, any status but running -> completed |
\* failed; no step sets a status to pending
C1_Transitions ==
    [][\A id \in Changed :
        LET from == process_status[id]
            to   == process_status'[id]
        IN  \/ /\ last'.op \in ExecuteOps
               /\ id = last'.process_id
               /\ \/ CallStep /\ from # RUNNING /\ to = RUNNING
                  \/ ReturnStep /\ from = RUNNING
                     /\ to \in {WAITING_APPROVAL, COMPLETED, FAILED}
            \/ /\ last'.op \in ApproveOps
               /\ id = last'.process_id
               /\ from # RUNNING /\ to \in {COMPLETED, FAILED}]_vars

\* a completed process is executed again: completed -> running
C1_Witness ==
    /\ last.op = "execute_process" /\ last.phase = "call"
    /\ last.pre = COMPLETED
    /\ process_status[last.process_id] = RUNNING

\* C2: after execute(i, inputs) with a successful response, status(i) is
\* waiting_approval if i requires approval and completed if not, and neither
\* the call nor the return changes the status of a process other than i
C2_ExecuteSuccess ==
    [][/\ CallStep => \A id \in Changed : id = last'.process_id
       /\ (ReturnStep /\ last'.phase = "return"
           /\ "output" \in DOMAIN last'.ret)
          => /\ process_status'[last'.process_id] =
                    (IF processes[last'.process_id].requires_approval
                     THEN WAITING_APPROVAL ELSE COMPLETED)
             /\ \A id \in Changed : id = last'.process_id]_vars

\* a process that requires approval has just been executed with success,
\* next to a process that is not pending
C2_Witness ==
    /\ last.op = "execute_process" /\ last.phase = "return"
    /\ "output" \in DOMAIN last.ret
    /\ processes[last.process_id].requires_approval
    /\ process_status[last.process_id] = WAITING_APPROVAL
    /\ \E id \in DOMAIN process_status :
          id # last.process_id /\ process_status[id] \in {COMPLETED, FAILED}

\* C3: when the model call of execute(i, inputs) fails, execute returns (it
\* does not raise), status(i) is failed, and the payload returned has the
\* fields error, process_id and timestamp and no field output
C3_FailureReturnsError ==
    [][(\E e \in ModelErrors : ModelRaises("caller", e))
       => /\ last'.phase = "return"
          /\ process_status'[last'.process_id] = FAILED
          /\ DOMAIN last'.ret = {"error", "process_id", "timestamp"}
          /\ last'.ret.process_id = inflight["caller"].process_id
          /\ last'.ret.error \in ModelErrors]_vars

\* the model call failed for a process that was completed before the call
C3_Witness ==
    /\ last.op = "execute_process" /\ last.phase = "return"
    /\ "error" \in DOMAIN last.ret
    /\ last.pre = COMPLETED
    /\ process_status[last.process_id] = FAILED

\* C4 as stated: after execute(i, inputs) returns, process_outputs[i] is the
\* payload it returned, success or error
C4_StoresEveryResult ==
    (last.op \in ExecuteOps /\ last.phase = "return")
    => /\ last.process_id \in DOMAIN process_outputs
       /\ process_outputs[last.process_id] = last.ret

\* C4 amended: after execute(i, inputs) returns the success payload,
\* process_outputs[i] is that payload; when it returns the error payload,
\* process_outputs is what it was before the call (the error payload is not
\* stored), so the stored value is the latest successful result of i
C4_StoresSuccessOnly ==
    [][/\ CallStep => process_outputs' = process_outputs
       /\ ReturnStep
          => IF last'.phase = "return" /\ "output" \in DOMAIN last'.ret
             THEN /\ last'.process_id \in DOMAIN process_outputs'
                  /\ process_outputs'[last'.process_id] = last'.ret
                  /\ \A id \in DOMAIN process_outputs :
                        id # last'.process_id
                        => /\ id \in DOMAIN process_outputs'
                           /\ process_outputs'[id] = process_outputs[id]
             ELSE process_outputs' = process_outputs]_vars

\* execute failed for a process whose earlier success is still stored
C4_Witness ==
    /\ last.op = "execute_process" /\ last.phase = "return"
    /\ "error" \in DOMAIN last.ret
    /\ last.process_id \in DOMAIN process_outputs
    /\ "output" \in DOMAIN process_outputs[last.process_id]
    /\ process_outputs[last.process_id].timestamp < last.ret.timestamp

\* the position of id in the declared order, from 1
Position(id) == CHOOSE k \in 1..Len(process_order) : process_order[k] = id

HasOutput(k) == process_order[k] \in DOMAIN process_outputs

\* the context of process id, position by position: each earlier position
\* with a recorded output adds its label and output text, after the
\* delimiter when an entry precedes it; the others add nothing
ExpectedContext(id) ==
    LET Ctx[k \in 0..(Position(id) - 1)] ==
            IF k = 0 THEN <<>>
            ELSE Ctx[k - 1] \o
                 (IF HasOutput(k)
                  THEN (IF \E j \in 1..(k - 1) : HasOutput(j)
                        THEN ContextDelimiter ELSE <<>>)
                       \o <<"[", processes[process_order[k]].name, "]\n">>
                       \o process_outputs[process_order[k]].output
                  ELSE <<>>)
    IN  Ctx[Position(id) - 1]

\* C5: the context built for process i is, in declared order and joined by
\* the delimiter, one entry (name label, output text) per process before i
\* that has an entry in process_outputs; i and later processes contribute
\* nothing; the prompt carries that context after its header when it is
\* not empty, and starts with the task when it is empty
C5_ContextOfEarlierOutputs ==
    ~IsIdle("caller")
    => LET c == inflight["caller"]
       IN  /\ c.context = ExpectedContext(c.process_id)
           /\ IF c.context # <<>>
              THEN SubSeq(c.prompt, 1, Len(c.context) + 1)
                      = <<"CONTEXT FROM PREVIOUS PROCESSES:\n">> \o c.context
              ELSE c.prompt[1] = "CURRENT TASK: "

\* the fourth process is called with outputs recorded for the first and the
\* third and none for the second
C5_Witness ==
    /\ ~IsIdle("caller")
    /\ Len(process_order) >= 4
    /\ inflight["caller"].process_id = process_order[4]
    /\ HasOutput(1) /\ ~HasOutput(2) /\ HasOutput(3)
    /\ Len(inflight["caller"].context) = 9

\* the lowest-index pending process, None when there is none
LowestPending ==
    IF \E k \in 1..Len(process_order) : process_status[process_order[k]] = PENDING
    THEN process_order[
            CHOOSE k \in 1..Len(process_order) :
                /\ process_status[process_order[k]] = PENDING
                /\ \A j \in 1..(k - 1) : process_status[process_order[j]] # PENDING]
    ELSE None

\* C6: next_pending() returns the lowest-index process whose status is
\* pending, nothing exactly when no process is pending, and changes no state
C6_NextPendingLowest ==
    [][last'.op = "get_next_process"
       => /\ last'.ret = LowestPending
          /\ (last'.ret = None
              <=> \A id \in DOMAIN process_status : process_status[id] # PENDING)
          /\ UNCHANGED << process_order, processes, process_status,
                          process_outputs, history, started_at, gemini_clients,
                          created, now, inflight >>]_vars

\* next_pending() returned the second process, the first being non-pending
C6_Witness ==
    /\ last.op = "get_next_process"
    /\ Len(process_order) >= 2
    /\ last.ret = process_order[2]
    /\ process_status[process_order[1]] # PENDING
    /\ process_status[process_order[2]] = PENDING

\* C7: approve(id, true) on a waiting_approval process sets its status to
\* completed, approve(id, false) sets it to failed
C7_ApproveWaiting ==
    [][(/\ last'.op \in ApproveOps
        /\ last'.process_id # None
        /\ process_status[last'.process_id] = WAITING_APPROVAL)
       => process_status'[last'.process_id] =
             (IF last'.arg THEN COMPLETED ELSE FAILED)]_vars

\* a waiting_approval process has just been rejected
C7_Witness ==
    /\ last.op = "approve_process"
    /\ last.pre = WAITING_APPROVAL
    /\ last.arg = FALSE
    /\ process_status[last.process_id] = FAILED

\* C8: in the state after construction from N definitions, each of the N
\* processes has status pending, and process_outputs and history are empty
C8_InitialState ==
    last.op = "__init__"
    => /\ DOMAIN process_status = { process_order[k] : k \in 1..Len(process_order) }
       /\ Cardinality(DOMAIN process_status) = Len(process_order)
       /\ \A id \in DOMAIN process_status : process_status[id] = PENDING
       /\ DOMAIN process_outputs = {}
       /\ history = <<>>

\* the state after construction from two definitions
C8_Witness ==
    /\ last.op = "__init__"
    /\ Len(process_order) = 2
    /\ \A id \in DOMAIN process_status : process_status[id] = PENDING

\* C9: whenever process j is pending and every process before j is not,
\* next_pending() returns j and execute(j) is accepted, whatever the
\* statuses of the earlier processes (failed included)
C9_FailureDoesNotBlock ==
    \A k \in 1..Len(process_order) :
        (/\ process_status[process_order[k]] = PENDING
         /\ \A j \in 1..(k - 1) : process_status[process_order[j]] # PENDING)
        => /\ GetNextProcess = process_order[k]
           /\ ExecuteAccepts(process_order[k])

\* the second process is being executed while the first one is failed
C9_Witness ==
    /\ Len(process_order) >= 2
    /\ process_status[process_order[1]] = FAILED
    /\ last.op = "execute_process" /\ last.phase = "call"
    /\ last.process_id = process_order[2]
    /\ last.pre = PENDING

\* C10 as stated: at most one process has status running
C10_OneRunning ==
    Cardinality({ id \in DOMAIN process_status : process_status[id] = RUNNING }) <= 1

\* a step is a step of one of the orchestrator's mutating methods:
\* execute_process (its two parts) or approve_process
MethodStep ==
    \/ \E l \in Listeners :
          ExecuteCall(l, last'.op, last'.process_id, last'.arg, started_at')
    \/ \E l \in Listeners, text \in ModelTexts : ModelResponds(l, text)
    \/ \E l \in Listeners, e \in ModelErrors : ModelRaises(l, e)
    \/ \E id \in DOMAIN processes, approved \in BOOLEAN :
          ApproveProcess(last'.op, id, approved)

\* a step changes a field the orchestrator's methods write
StateWritten ==
    \/ process_status' # process_status
    \/ process_outputs' # process_outputs
    \/ history' # history

\* C11 as stated: statuses, outputs, history, started_at and the workflow id
\* change only in steps of the orchestrator's methods, none of which writes
\* started_at or the workflow id
C11_OnlyMethodsWrite ==
    [][/\ StateWritten => MethodStep
       /\ started_at' = started_at
       /\ workflow_id' = workflow_id]_vars

\* C11 amended: statuses, outputs and history change only in steps of the
\* orchestrator's methods and the workflow id never changes; started_at is
\* the exception: start_workflow writes it directly, and nothing else does
C11_OnlyStartedAtWrittenByHandler ==
    [][/\ StateWritten => MethodStep
       /\ workflow_id' = workflow_id
       /\ started_at' # started_at
          => last'.op = "start_workflow" /\ last'.phase = "call"]_vars

\* start_workflow has just written started_at
C11_Witness ==
    /\ last.op = "start_workflow" /\ last.phase = "call"
    /\ started_at # 0

\* history' extends history: no entry removed or rewritten
HistoryExtended ==
    /\ Len(history') >= Len(history)
    /\ SubSeq(history', 1, Len(history)) = history

\* history' is history with one execution record of process id at the end
LoggedOnce(id) ==
    /\ Len(history') = Len(history) + 1
    /\ history'[Len(history')].process = id
    /\ history'[Len(history')].action = "executed"

\* C12 as stated: history is append-only, and every call of execute appends
\* exactly one execution record for its process
C12_EveryExecuteLogged ==
    [][/\ HistoryExtended
       /\ ReturnStep => LoggedOnce(last'.process_id)]_vars

\* C12 amended: history is append-only; an execute that returns the success
\* payload appends exactly one execution record for its process at the end;
\* an execute whose model call fails, and every other operation, leaves
\* history as it is
C12_SuccessLogged ==
    [][/\ HistoryExtended
       /\ IF ReturnStep /\ last'.phase = "return"
             /\ "output" \in DOMAIN last'.ret
          THEN LoggedOnce(last'.process_id)
          ELSE history' = history]_vars

\* an execute has failed after a logged one: history still has one record
C12_Witness ==
    /\ last.op = "execute_process" /\ last.phase = "return"
    /\ "error" \in DOMAIN last.ret
    /\ Len(history) = 1
    /\ now = 3

\* C13: approve(id, approved) checks no status: on a process in any status
\* (pending, running, completed, failed, waiting_approval) it returns the
\* message without an error and overwrites the status with completed
\* (approved) or failed (rejected)
C13_ApproveUnguarded ==
    [][last'.op = "approve_process"
       => /\ last'.phase = "return"
          /\ last'.pre = process_status[last'.process_id]
          /\ process_status' =
                [process_status EXCEPT ![last'.process_id] =
                    IF last'.arg THEN COMPLETED ELSE FAILED]
          /\ last'.ret =
                <<IF last'.arg THEN "approved: " ELSE "rejected: ",
                  processes[last'.process_id].name>>]_vars

\* approve has just overwritten the status of a running process
C13_Witness ==
    /\ last.op = "approve_process"
    /\ last.pre = RUNNING
    /\ last.arg = TRUE
    /\ process_status[last.process_id] = COMPLETED
    /\ ~IsIdle("execute_btn")
    /\ inflight["execute_btn"].process_id = last.process_id

\* C14: the model client of a process is created lazily and once: no client
\* exists before the process is first executed, the first execute call of a
\* process creates its client, no other step creates one, and every later
\* execute call finds it cached, so at most one client is ever created per
\* process id
C14_ClientOncePerProcess ==
    [][/\ \A id \in DOMAIN processes :
            /\ created'[id] <= 1
            /\ created'[id] = 1 <=> id \in gemini_clients'
            /\ created'[id] # created[id]
                  => /\ CallStep
                     /\ last'.process_id = id
                     /\ created[id] = 0
       /\ gemini_clients \subseteq gemini_clients'
       /\ CallStep => created'[last'.process_id] = 1]_vars

\* a process executed before is executed again, and still has one client
C14_Witness ==
    /\ last.op = "execute_process"
    /\ last.phase = "call"
    /\ last.pre = COMPLETED
    /\ created[last.process_id] = 1
    /\ \E id \in DOMAIN processes : created[id] = 0

\* the lowest-index process whose status is waiting_approval, None if none
LowestWaiting ==
    IF \E k \in 1..Len(process_order) :
            process_status[process_order[k]] = WAITING_APPROVAL
    THEN process_order[
            CHOOSE k \in 1..Len(process_order) :
                /\ process_status[process_order[k]] = WAITING_APPROVAL
                /\ \A j \in 1..(k - 1) :
                      process_status[process_order[j]] # WAITING_APPROVAL]
    ELSE None

\* C15: the approve/reject handler takes no process id: it applies the
\* decision to the first process in declared order that is waiting for
\* approval, and to that one only; when none is waiting it reports that
\* there is nothing to approve and changes no status
C15_HandlerTakesFirstWaiting ==
    [][last'.op = "approve_process_handler"
       => IF LowestWaiting = None
          THEN /\ last'.process_id = None
               /\ last'.ret = <<"No process to approve">>
               /\ process_status' = process_status
          ELSE /\ last'.process_id = LowestWaiting
               /\ process_status' =
                     [process_status EXCEPT ![LowestWaiting] =
                         IF last'.arg THEN COMPLETED ELSE FAILED]]_vars

\* two processes were waiting: the handler decided the first, the second
\* still waits
C15_Witness ==
    /\ Len(process_order) >= 2
    /\ last.op = "approve_process_handler"
    /\ last.process_id = process_order[1]
    /\ last.pre = WAITING_APPROVAL
    /\ process_status[process_order[1]] \in { COMPLETED, FAILED }
    /\ process_status[process_order[2]] = WAITING_APPROVAL

\* every process id has one status, which is one of the five values
OneStatusEach ==
    /\ DOMAIN process_status = DOMAIN processes
    /\ \A id \in DOMAIN processes : process_status[id] \in ProcessStatus

\* C16: in every reachable state each process id has exactly one of the five
\* statuses; get_workflow_status() changes no state, and the five counts it
\* reports are the numbers of processes in each status and sum to N
C16_CountsSumToTotal ==
    [][/\ OneStatusEach
       /\ OneStatusEach'
       /\ last'.op = "get_workflow_status"
             => /\ UNCHANGED << config, process_status, process_outputs,
                                history, started_at, gemini_clients >>
                /\ last'.ret.total = Len(process_order)
                /\ \A status \in ProcessStatus :
                      last'.ret.counts[status] =
                         Cardinality({ k \in 1..Len(process_order) :
                            process_status[process_order[k]] = status })
                /\ last'.ret.counts[PENDING] + last'.ret.counts[RUNNING]
                      + last'.ret.counts[COMPLETED] + last'.ret.counts[FAILED]
                      + last'.ret.counts[WAITING_APPROVAL]
                   = Len(process_order)]_vars

\* a summary taken with processes in different statuses
C16_Witness ==
    /\ last.op = "get_workflow_status"
    /\ last.ret.counts[WAITING_APPROVAL] = 1
    /\ last.ret.counts[FAILED] = 1
    /\ last.ret.total = 2

\* the processes whose status is pending
PendingSet == { id \in DOMAIN process_status : process_status[id] = PENDING }

\* C17: no operation sets a status to pending, so the set of pending
\* processes only shrinks; get_next_process returns a pending process or
\* None, so a process that failed or was rejected is never selected again
C17_PendingOnlyShrinks ==
    [][/\ PendingSet' \subseteq PendingSet
       /\ \A id \in DOMAIN processes :
             process_status[id] = FAILED => process_status'[id] # PENDING
       /\ last'.op = "get_next_process"
             => \/ last'.ret = None /\ PendingSet = {}
                \/ last'.ret \in PendingSet]_vars

\* the first process was rejected (its output is stored, its status is
\* failed) and get_next_process passes over it
C17_Witness ==
    /\ Len(process_order) >= 2
    /\ last.op = "get_next_process"
    /\ last.ret = process_order[2]
    /\ process_status[process_order[1]] = FAILED
    /\ process_order[1] \in DOMAIN process_outputs

\* C18: auto-advance makes progress and terminates.  An invocation made while
\* a process is pending executes the lowest-index pending process, which
\* leaves the pending set at once and stays out of it whether the model call
\* succeeds or fails; nothing else leaves or enters the set.  The number of
\* pending processes is therefore N minus the number of executions started
\* (now - 1), and none is pending after N invocations.  An invocation made
\* with no pending process returns 'No pending processes' and leaves
\* statuses, outputs and history unchanged
C18_AutoAdvanceTerminates ==
    [][/\ last'.op = "auto_advance_workflow" /\ last'.phase = "call"
             => /\ LowestPending # None
                /\ last'.process_id = LowestPending
                /\ PendingSet' = PendingSet \ { LowestPending }
       /\ last'.op = "auto_advance_workflow" /\ last'.phase # "call"
          /\ last'.process_id # None
             => /\ last'.phase = "return"
                /\ PendingSet' = PendingSet
                /\ last'.process_id \notin PendingSet'
       /\ last'.op = "auto_advance_workflow" /\ last'.process_id = None
             => /\ PendingSet = {}
                /\ last'.ret = <<"No pending processes">>
                /\ UNCHANGED << process_status, process_outputs, history >>
       /\ Cardinality(PendingSet') + (now' - 1) = Len(process_order)
       /\ now' - 1 <= Len(process_order)]_vars

\* both processes of a workflow have been auto-advanced, one of them failed,
\* and a further invocation finds nothing pending
C18_Witness ==
    /\ Len(process_order) = 2
    /\ last.op = "auto_advance_workflow"
    /\ last.process_id = None
    /\ last.ret = <<"No pending processes">>
    /\ now = 3
    /\ \E id \in DOMAIN processes :
          process_status[id] = FAILED /\ id \notin DOMAIN process_outputs

\* C19: a process that requires approval is never made completed by execute:
\* a successful execute leaves it waiting_approval, and every step in which
\* its status becomes completed is an approve(id, true) of that process
C19_CompletedOnlyByApproval ==
    [][\A id \in DOMAIN processes :
          processes[id].requires_approval
          => /\ (ReturnStep /\ last'.process_id = id)
                   => process_status'[id] \in { WAITING_APPROVAL, FAILED }
             /\ (process_status'[id] = COMPLETED /\ process_status[id] # COMPLETED)
                   => /\ last'.op \in ApproveOps
                      /\ last'.process_id = id
                      /\ last'.arg = TRUE]_vars

\* a process that requires approval was executed with success, waited, and
\* has just been made completed by an approval
C19_Witness ==
    /\ last.op = "approve_process"
    /\ last.arg = TRUE
    /\ last.pre = WAITING_APPROVAL
    /\ processes[last.process_id].requires_approval
    /\ process_status[last.process_id] = COMPLETED
    /\ last.process_id \in DOMAIN process_outputs
    /\ Len(history) >= 1

\* text sub occurs in text t
Occurs(sub, t) ==
    \E i \in 1..(Len(t) - Len(sub) + 1) : SubSeq(t, i, i + Len(sub) - 1) = sub

\* the earlier processes that were rejected: failed, with a recorded output
RejectedBefore(id) ==
    { k \in 1..(Position(id) - 1) :
         HasOutput(k) /\ process_status[process_order[k]] = FAILED }

\* C20: approve(id, approved) changes only status(id): process_outputs,
\* history and the other statuses are as before, so the context of every
\* process is as before; the recorded output of a rejected process stays
\* stored and is part of the context of every later process executed
C20_ApproveKeepsOutputs ==
    [][/\ (last'.op \in ApproveOps /\ last'.process_id # None)
             => /\ process_outputs' = process_outputs
                /\ history' = history
                /\ \A id \in Changed : id = last'.process_id
                /\ UNCHANGED << config, started_at, gemini_clients, inflight >>
                /\ \A id \in DOMAIN processes :
                      BuildContext(id)' = BuildContext(id)
       /\ CallStep
             => \A k \in RejectedBefore(last'.process_id) :
                   /\ "output" \in DOMAIN process_outputs[process_order[k]]
                   /\ Occurs(<<"[", processes[process_order[k]].name, "]\n">>
                                \o process_outputs[process_order[k]].output,
                             inflight'["caller"].context)]_vars

\* the first process was rejected after a successful execute, and the second
\* is being executed with the first one's output as its context
C20_Witness ==
    /\ Len(process_order) >= 2
    /\ last.op = "execute_process" /\ last.phase = "call"
    /\ last.process_id = process_order[2]
    /\ processes[process_order[1]].requires_approval
    /\ process_status[process_order[1]] = FAILED
    /\ HasOutput(1)
    /\ inflight["caller"].context = ContextEntry(process_order[1])

\* the stored output text of the process at position k, the empty text when
\* there is no such position or nothing is recorded for it
StoredText(k) ==
    IF k >= 1 /\ HasOutput(k)
       /\ "output" \in DOMAIN process_outputs[process_order[k]]
    THEN process_outputs[process_order[k]].output
    ELSE <<>>

\* C21: auto-advance executes the next pending process with one input, named
\* input: the stored output text of the process immediately before it in the
\* declared order, whatever that process's status, and the empty string when
\* the next pending process is the first or its predecessor has no recorded
\* output
C21_AutoAdvanceInputIsPreviousOutput ==
    [][(last'.op = "auto_advance_workflow" /\ last'.phase = "call")
       => /\ last'.process_id = LowestPending
          /\ last'.arg =
                << <<"input", StoredText(Position(last'.process_id) - 1)>> >>
          /\ inflight'["auto_advance_btn"].process_id = last'.process_id
          /\ inflight'["auto_advance_btn"].inputs = last'.arg]_vars

\* the second process is auto-advanced with the output of the first, which
\* was rejected
C21_Witness ==
    /\ Len(process_order) >= 2
    /\ last.op = "auto_advance_workflow" /\ last.phase = "call"
    /\ last.process_id = process_order[2]
    /\ process_status[process_order[1]] = FAILED
    /\ HasOutput(1)
    /\ last.arg = << <<"input", process_outputs[process_order[1]].output>> >>
    /\ process_outputs[process_order[1]].output # <<>>

=============================================================================
